---- MODULE Spec2Model ----
(***************************************************************************)
(* A model of task2.py: read_and_filter (range filter), simple_composite   *)
(* (nanmean of two images, optional 2x2 minimum filter) and fill_missing   *)
(* (scipy.interpolate.griddata on the NaN cells, stored in place), with    *)
(* the two fill calls of __main__.                                         *)
(*                                                                         *)
(* A float cell is a pair <<n, d>>: the rational n/d in lowest terms with  *)
(* d > 0, or NaN, written <<0, 0>>.  Comparisons follow IEEE 754: every    *)
(* ordered comparison with NaN is false.                                   *)
(*                                                                         *)
(* A grid is a record [h, w, v] with v a function on the index pairs       *)
(* <<i, j>>, i in 0..h-1, j in 0..w-1 (numpy's 0-based indices).           *)
(***************************************************************************)
EXTENDS Integers, Sequences, FiniteSets, TLC

\* ------------------------------------------------------------------ bounds
MaxSanCells == 4      \* cells of a raw grid given to read_and_filter
MaxCompCells == 4     \* cells of each image given to simple_composite
MaxFillCells == 6     \* cells of a grid given to fill_missing

\* ---------------------------------------------------------------- floats
NaN == <<0, 0>>

IsNaN(c) == c[2] = 0

Abs(n) == IF n < 0 THEN -n ELSE n

RECURSIVE GCD(_, _)
GCD(a, b) == IF b = 0 THEN a ELSE GCD(b, a % b)

\* n/d (d > 0) in lowest terms
Norm(n, d) == LET g == GCD(Abs(n), d) IN <<n \div g, d \div g>>

\* int -> float64 (exact for the integers of a radar file)
ToFloat(n) == <<n, 1>>

RAdd(a, b) == Norm(a[1] * b[2] + b[1] * a[2], a[2] * b[2])

RScale(k, a) == Norm(k * a[1], a[2])

RDiv(a, k) == Norm(a[1], a[2] * k)

\* a <= b on floats: false when either side is NaN
Le(a, b) == ~IsNaN(a) /\ ~IsNaN(b) /\ a[1] * b[2] <= b[1] * a[2]

\* ----------------------------------------------------------------- grids
Index(h, w) == (0 .. (h - 1)) \X (0 .. (w - 1))

Shapes(maxCells) ==
    {s \in (1 .. maxCells) \X (1 .. maxCells) : s[1] * s[2] <= maxCells}

Grids(maxCells, cells) ==
    UNION {{[h |-> s[1], w |-> s[2], v |-> f] : f \in [Index(s[1], s[2]) -> cells]}
           : s \in Shapes(maxCells)}

EmptyGrid == [h |-> 0, w |-> 0, v |-> [p \in {} |-> NaN]]

ValidPts(g) == {p \in DOMAIN g.v : ~IsNaN(g.v[p])}

MissingPts(g) == {p \in DOMAIN g.v : IsNaN(g.v[p])}

VARIABLES
    pc,       \* position of the program
    err,      \* the exception raised, "none" when none
    fmin, fmax,   \* read_and_filter's range arguments
    raw,      \* the integer array parsed from the file
    data,     \* read_and_filter's result
    img1, img2, smooth,   \* simple_composite's arguments
    fimg,     \* simple_composite's result
    heap,     \* the array objects: a sequence of grids, a reference is an index
    comp,     \* __main__'s name comp: a reference
    fcomp,    \* __main__'s name fcomp: a reference, 0 while unbound
    m1, m2,   \* the methods of the first and the second fill_missing call
    comp0,    \* history: the grid before the first call
    out1,     \* history: the grid the first call returned
    in2       \* history: the grid the second call was given

vars == <<pc, err, fmin, fmax, raw, data, img1, img2, smooth, fimg,
          heap, comp, fcomp, m1, m2, comp0, out1, in2>>

sanVars == <<fmin, fmax, raw, data>>
compVars == <<img1, img2, smooth, fimg>>
fillVars == <<heap, comp, fcomp, m1, m2, comp0, out1, in2>>

SanIdle ==
    /\ fmin = 0 /\ fmax = 0 /\ raw = EmptyGrid /\ data = EmptyGrid

CompIdle ==
    /\ img1 = EmptyGrid /\ img2 = EmptyGrid /\ smooth = FALSE /\ fimg = EmptyGrid

FillIdle ==
    /\ heap = <<>> /\ comp = 0 /\ fcomp = 0 /\ m1 = "-" /\ m2 = "-"
    /\ comp0 = EmptyGrid /\ out1 = EmptyGrid /\ in2 = EmptyGrid

\* ------------------------------------------------------- read_and_filter
DefaultFmin == -32
DefaultFmax == 64

\* the range arguments tried: the defaults, each bound alone, and swapped
RangeArgs == {DefaultFmin, DefaultFmax}

\* integers below, at and above each bound, and between the bounds
RawVals == {DefaultFmin - 1, DefaultFmin, 0, DefaultFmax, DefaultFmax + 1}

\* np.where((data < fmin) | (data > fmax), np.nan, data), lower bound exclusive
FilterCellExclusive(x, lo, hi) ==
    IF (x <= lo) \/ (x >= hi) THEN NaN ELSE ToFloat(x)

\* np.where((data < fmin) | (data > fmax), np.nan, data) on one element
FilterCell(x, lo, hi) ==
    IF (x < lo) \/ (x > hi) THEN NaN ELSE ToFloat(x)

Filter(g, lo, hi) ==
    [g EXCEPT !.v = [p \in DOMAIN g.v |-> FilterCell(g.v[p], lo, hi)]]

InitSanitize ==
    /\ pc = "start" /\ err = "none"
    /\ fmin \in RangeArgs /\ fmax \in RangeArgs
    /\ raw \in Grids(MaxSanCells, RawVals)
    /\ data = EmptyGrid
    /\ CompIdle /\ FillIdle

ReadAndFilter ==
    /\ pc = "start"
    /\ data' = Filter(raw, fmin, fmax)
    /\ pc' = "filtered"
    /\ UNCHANGED <<err, fmin, fmax, raw, compVars, fillVars>>

NextSanitize == ReadAndFilter

SpecSanitize == InitSanitize /\ [][NextSanitize]_vars

\* ------------------------------------------------------ simple_composite
ImgVals == {NaN, ToFloat(0), ToFloat(1)}

Zero == ToFloat(0)

\* np.mean: NaN as soon as one operand is NaN
PlainMean(a, b) ==
    IF IsNaN(a) \/ IsNaN(b) THEN NaN ELSE RDiv(RAdd(a, b), 2)

\* np.nanmean over the stacking axis: NaNs replaced by 0 and summed, divided by
\* the count of non-NaN operands; 0/0 is NaN (a RuntimeWarning, no exception)
NanMean(a, b) ==
    LET tot == RAdd(IF IsNaN(a) THEN Zero ELSE a, IF IsNaN(b) THEN Zero ELSE b)
        cnt == (IF IsNaN(a) THEN 0 ELSE 1) + (IF IsNaN(b) THEN 0 ELSE 1)
    IN  IF cnt = 0 THEN NaN ELSE RDiv(tot, cnt)

NanMeanGrid(a, b) ==
    [a EXCEPT !.v = [p \in DOMAIN a.v |-> NanMean(a.v[p], b.v[p])]]

\* mode='reflect' (d c b a | a b c d): index -1 reads index 0
Reflect(i) == IF i < 0 THEN -i - 1 ELSE i

\* One output of minimum_filter1d with size 2.  The window of output i is
\* inputs i-1 and i.  The sliding-minimum loop holds the older input as the
\* current minimum and takes the newer one only when `val <= minpair->value`
\* is true, which it is not when either is NaN.
MinStep(prev, cur) == IF Le(cur, prev) THEN cur ELSE prev

MinimumFilter1D(g, axis) ==
    [g EXCEPT !.v = [p \in DOMAIN g.v |->
        LET q == IF axis = 0 THEN <<Reflect(p[1] - 1), p[2]>>
                             ELSE <<p[1], Reflect(p[2] - 1)>>
        IN  MinStep(g.v[q], g.v[p])]]

\* minimum_filter(fimg, size=2): separable, axis 0 then axis 1
MinimumFilter(g) == MinimumFilter1D(MinimumFilter1D(g, 0), 1)

SimpleCompositeResult(a, b, sm) ==
    IF sm THEN MinimumFilter(NanMeanGrid(a, b)) ELSE NanMeanGrid(a, b)

InitComposite ==
    /\ pc = "start" /\ err = "none"
    /\ img1 \in Grids(MaxCompCells, ImgVals)
    /\ img2 \in Grids(MaxCompCells, ImgVals)
    /\ img1.h = img2.h /\ img1.w = img2.w
    /\ smooth \in BOOLEAN
    /\ fimg = EmptyGrid
    /\ SanIdle /\ FillIdle

SimpleComposite ==
    /\ pc = "start"
    /\ fimg' = SimpleCompositeResult(img1, img2, smooth)
    /\ pc' = "composited"
    /\ UNCHANGED <<err, img1, img2, smooth, sanVars, fillVars>>

NextComposite == SimpleComposite

SpecComposite == InitComposite /\ [][NextComposite]_vars

\* ---------------------------------------------------------- fill_missing
Methods == {"linear", "nearest", "cubic"}

FillVals == {NaN, ToFloat(0), ToFloat(1)}

\* twice the signed area of the triangle a, b, c
Orient(a, b, c) ==
    (b[1] - a[1]) * (c[2] - a[2]) - (b[2] - a[2]) * (c[1] - a[1])

\* no three of the points span a triangle (also: fewer than three points)
Degenerate(P) == \A a \in P, b \in P, c \in P : Orient(a, b, c) = 0

Sq(x) == x * x

\* for a, b, c counterclockwise: positive iff d is strictly inside their circle
InCircleDet(a, b, c, d) ==
    LET ax == a[1] - d[1]  ay == a[2] - d[2]
        bx == b[1] - d[1]  by == b[2] - d[2]
        cx == c[1] - d[1]  cy == c[2] - d[2]
        a2 == Sq(ax) + Sq(ay)  b2 == Sq(bx) + Sq(by)  c2 == Sq(cx) + Sq(cy)
    IN  ax * (by * c2 - b2 * cy) - ay * (bx * c2 - b2 * cx)
          + a2 * (bx * cy - by * cx)

\* scipy.spatial.Delaunay(points): the triangles a Delaunay triangulation of P
\* can hold, counterclockwise, none with a point of P strictly inside its
\* circumcircle.  Among cocircular points Qhull's choice is not fixed here.
DelaunayTriangles(P) ==
    {t \in P \X P \X P :
        /\ Orient(t[1], t[2], t[3]) > 0
        /\ \A d \in P \ {t[1], t[2], t[3]} : InCircleDet(t[1], t[2], t[3], d) <= 0}

\* the barycentric weights of p in t, unnormalised (they sum to Orient(t))
Bary(t, p) ==
    <<Orient(p, t[2], t[3]), Orient(t[1], p, t[3]), Orient(t[1], t[2], p)>>

Contains(t, p) == \A k \in 1 .. 3 : Bary(t, p)[k] >= 0

\* LinearNDInterpolator at p: the barycentric combination of the values at the
\* corners of a Delaunay triangle that holds p; no value outside the hull
LinearValues(g, p) ==
    {LET b == Bary(t, p)
     IN  RDiv(RAdd(RAdd(RScale(b[1], g.v[t[1]]), RScale(b[2], g.v[t[2]])),
                   RScale(b[3], g.v[t[3]])),
              Orient(t[1], t[2], t[3]))
     : t \in {u \in DelaunayTriangles(ValidPts(g)) : Contains(u, p)}}

Dist2(p, q) == Sq(p[1] - q[1]) + Sq(p[2] - q[2])

\* NearestNDInterpolator at p: the value of a valid sample at the least
\* Euclidean distance (cKDTree.query; which of several equidistant ones is
\* not fixed here)
NearestValues(g, p) ==
    {g.v[q] : q \in {r \in ValidPts(g) :
                       \A s \in ValidPts(g) : Dist2(p, r) <= Dist2(p, s)}}

\* CloughTocher2DInterpolator at p: defined exactly where the linear one is;
\* the value is some finite float, drawn here from a few samples inside and
\* outside the range of the data
CubicSamples == {<<-1, 2>>, <<1, 2>>, <<3, 2>>}

CubicValues(g, p) == IF LinearValues(g, p) = {} THEN {} ELSE CubicSamples

OrNaN(S) == IF S = {} THEN {NaN} ELSE S

Candidates(g, method, p) ==
    CASE method = "linear" -> OrNaN(LinearValues(g, p))
      [] method = "nearest" -> OrNaN(NearestValues(g, p))
      [] method = "cubic" -> OrNaN(CubicValues(g, p))

\* griddata((valid_x, valid_y), valid_values, (x[missing], y[missing]), method):
\* the outcomes, each an exception or the values at the missing positions.
\* linear and cubic build the Delaunay triangulation of the valid positions
\* first, also when nothing is missing, and Qhull refuses fewer than three
\* points and collinear points.  nearest with no valid sample finds no
\* neighbour: older SciPy then indexes the empty values (IndexError), newer
\* SciPy returns NaN there.
Griddata(g, method) ==
    LET V == ValidPts(g)
        M == MissingPts(g)
        U == UNION {Candidates(g, method, p) : p \in M}
    IN  IF method \in {"linear", "cubic"} /\ Degenerate(V)
        THEN {[err |-> "TriangulationError", vals |-> <<>>]}
        ELSE {[err |-> "none", vals |-> f] :
                f \in {h \in [M -> U] : \A p \in M : h[p] \in Candidates(g, method, p)}}
             \cup (IF method = "nearest" /\ V = {} /\ M # {}
                   THEN {[err |-> "IndexError", vals |-> <<>>]} ELSE {})

\* the grid holding only the interpolated values
ScatterOnly(g, f) ==
    [g EXCEPT !.v = [p \in DOMAIN g.v |-> IF p \in DOMAIN f THEN f[p] ELSE NaN]]

\* data[missing_indices] = interpolated_values
Scatter(g, f) ==
    [g EXCEPT !.v = [p \in DOMAIN g.v |-> IF p \in DOMAIN f THEN f[p] ELSE g.v[p]]]

\* the result stored in a fresh array, which is returned
StoreCopy(h, ref, g) == [heap |-> Append(h, g), ret |-> Len(h) + 1]

\* the assignment writes into the caller's array; `return data` returns the
\* reference that was passed in
Store(h, ref, g) == [heap |-> [h EXCEPT ![ref] = g], ret |-> ref]

InitFill ==
    /\ pc = "ready" /\ err = "none"
    /\ comp0 \in Grids(MaxFillCells, FillVals)
    /\ heap = <<comp0>> /\ comp = 1 /\ fcomp = 0
    /\ m1 = "-" /\ m2 = "-"
    /\ out1 = EmptyGrid /\ in2 = EmptyGrid
    /\ SanIdle /\ CompIdle

\* fcomp = fill_missing(comp, method=method), first call
FillFirst(method) ==
    /\ pc = "ready"
    /\ m1' = method
    /\ \E o \in Griddata(heap[comp], method) :
         IF o.err # "none"
         THEN /\ pc' = "failed" /\ err' = o.err
              /\ UNCHANGED <<heap, fcomp, out1>>
         ELSE LET st == Store(heap, comp, Scatter(heap[comp], o.vals))
              IN  /\ heap' = st.heap /\ fcomp' = st.ret
                  /\ out1' = st.heap[st.ret]
                  /\ pc' = "pass1" /\ err' = "none"
    /\ UNCHANGED <<comp, m2, comp0, in2, sanVars, compVars>>

\* fcomp = fill_missing(comp, method=method), second call
FillSecond(method) ==
    /\ pc = "pass1"
    /\ m2' = method
    /\ in2' = heap[comp]
    /\ \E o \in Griddata(heap[comp], method) :
         IF o.err # "none"
         THEN /\ pc' = "failed" /\ err' = o.err
              /\ UNCHANGED <<heap, fcomp>>
         ELSE LET st == Store(heap, comp, Scatter(heap[comp], o.vals))
              IN  /\ heap' = st.heap /\ fcomp' = st.ret
                  /\ pc' = "pass2" /\ err' = "none"
    /\ UNCHANGED <<comp, m1, comp0, out1, sanVars, compVars>>

NextFill ==
    \/ \E method \in Methods : FillFirst(method)
    \/ \E method \in Methods : FillSecond(method)

SpecFill == InitFill /\ [][NextFill]_vars

\* the grid __main__'s name comp refers to
Cur == heap[comp]

\* ================================================================ claims

HasValid(g) == ValidPts(g) # {}

NoMissing(g) == MissingPts(g) = {}

SameShape(a, b) == a.h = b.h /\ a.w = b.w /\ DOMAIN a.v = DOMAIN b.v

\* 2 * m = a + b on floats that are not NaN
IsMeanOf(m, a, b) ==
    /\ ~IsNaN(m)
    /\ 2 * m[1] * a[2] * b[2] = m[2] * (a[1] * b[2] + b[1] * a[2])

\* p lies strictly on the far side of a line that has all of P on its near
\* side: p is outside the convex hull of P
OutsideHull(P, p, span) ==
    \E a \in (-span) .. span, b \in (-span) .. span :
        \A q \in P : a * q[1] + b * q[2] < a * p[1] + b * p[2]

\* the first fill_missing call is over (returned or raised), the second not begun
FirstCallOver == pc \in {"pass1", "failed"} /\ m2 = "-"

\* C1: for every grid with at least one Valid cell, fill with 'linear' and then
\* fill with 'nearest' completes without error and leaves no Missing cell.
C1_TwoPassComplete ==
    (HasValid(comp0) /\ m1 = "linear" /\ m2 \in {"-", "nearest"}) =>
        /\ pc # "failed"
        /\ pc = "pass2" => NoMissing(heap[fcomp])

\* C2: composite(A, B, smooth=false) is, cell by cell, the arithmetic mean of
\* the two values when both are Valid, the one Valid value when exactly one is,
\* and Missing when both are Missing; no error is raised.
C2_CompositeCells ==
    (pc = "composited" /\ ~smooth) =>
        /\ err = "none"
        /\ SameShape(fimg, img1)
        /\ \A p \in DOMAIN img1.v :
             LET a == img1.v[p]
                 b == img2.v[p]
             IN  /\ (~IsNaN(a) /\ ~IsNaN(b)) => IsMeanOf(fimg.v[p], a, b)
                 /\ (~IsNaN(a) /\ IsNaN(b)) => fimg.v[p] = a
                 /\ (IsNaN(a) /\ ~IsNaN(b)) => fimg.v[p] = b
                 /\ (IsNaN(a) /\ IsNaN(b)) => IsNaN(fimg.v[p])

\* a composite without smoothing with a cell of each kind: both Valid and
\* different, only the first Valid, only the second Valid, both Missing
C2_Witness ==
    /\ pc = "composited" /\ ~smooth
    /\ \E p \in DOMAIN img1.v :
         ~IsNaN(img1.v[p]) /\ ~IsNaN(img2.v[p]) /\ img1.v[p] # img2.v[p]
    /\ \E p \in DOMAIN img1.v : ~IsNaN(img1.v[p]) /\ IsNaN(img2.v[p])
    /\ \E p \in DOMAIN img1.v : IsNaN(img1.v[p]) /\ ~IsNaN(img2.v[p])
    /\ \E p \in DOMAIN img1.v : IsNaN(img1.v[p]) /\ IsNaN(img2.v[p])

\* C3: for fmin <= fmax, sanitize keeps the shape, makes Missing every cell
\* whose value is below fmin or above fmax, and keeps the value of every cell
\* with fmin <= value <= fmax, the bounds included.
C3_SanitizeRange ==
    (pc = "filtered" /\ fmin <= fmax) =>
        /\ SameShape(data, raw)
        /\ \A p \in DOMAIN raw.v :
             /\ (raw.v[p] < fmin \/ raw.v[p] > fmax) => IsNaN(data.v[p])
             /\ (fmin <= raw.v[p] /\ raw.v[p] <= fmax) =>
                    /\ ~IsNaN(data.v[p])
                    /\ data.v[p][1] = raw.v[p] * data.v[p][2]

\* a filtered grid with fmin < fmax holding a value below fmin, fmin itself,
\* fmax itself and a value above fmax
C3_Witness ==
    /\ pc = "filtered" /\ fmin < fmax
    /\ \E p \in DOMAIN raw.v : raw.v[p] < fmin /\ IsNaN(data.v[p])
    /\ \E p \in DOMAIN raw.v : raw.v[p] = fmin /\ ~IsNaN(data.v[p])
    /\ \E p \in DOMAIN raw.v : raw.v[p] = fmax /\ ~IsNaN(data.v[p])
    /\ \E p \in DOMAIN raw.v : raw.v[p] > fmax /\ IsNaN(data.v[p])

\* C4: a fill call changes only cells that were Missing: every cell Valid
\* before a call holds the same value after it, for every method, and in
\* linear-then-nearest every cell the first pass gave a value still holds it
\* after the second.
C4_ValidUnchanged ==
    /\ \A p \in ValidPts(comp0) : Cur.v[p] = comp0.v[p]
    /\ pc \in {"pass1", "pass2"} =>
           \A p \in ValidPts(comp0) : out1.v[p] = comp0.v[p]
    /\ m2 # "-" =>
           /\ \A p \in ValidPts(in2) : Cur.v[p] = in2.v[p]
           /\ \A p \in ValidPts(out1) : Cur.v[p] = out1.v[p]
    /\ pc = "pass2" =>
           \A p \in ValidPts(out1) : heap[fcomp].v[p] = out1.v[p]

\* linear then nearest, where the grid had a Valid cell, the first pass gave
\* a cell its value and the second pass gave another cell its value
C4_Witness ==
    /\ pc = "pass2" /\ m1 = "linear" /\ m2 = "nearest"
    /\ HasValid(comp0)
    /\ \E p \in MissingPts(comp0) : ~IsNaN(out1.v[p])
    /\ \E p \in MissingPts(out1) : ~IsNaN(Cur.v[p])

\* C5: fill on a grid with zero Valid cells signals an error instead of
\* returning a grid, for every method.
C5_NoValidSamples ==
    (~HasValid(comp0) /\ pc # "ready") => (pc = "failed" /\ err # "none")

\* Missing cells of g outside the convex hull of its Valid positions
Residual(g) ==
    {p \in MissingPts(g) : OutsideHull(ValidPts(g), p, g.h + g.w)}

\* C6: a single 'linear' pass on a grid that has Valid cells and Missing
\* cells outside their convex hull returns normally, not with an error, and
\* every such cell is still Missing in the result.
C6_LinearResidual ==
    (m1 = "linear" /\ FirstCallOver /\ HasValid(comp0) /\ Residual(comp0) # {}) =>
        /\ pc # "failed"
        /\ \A p \in Residual(comp0) : IsNaN(out1.v[p])

\* C7: on a grid with no Missing cell, fill returns a grid equal to it cell
\* for cell and raises no error, for every method.
C7_FillIdentity ==
    (NoMissing(comp0) /\ FirstCallOver) =>
        /\ pc # "failed"
        /\ out1 = comp0

\* C8: sanitize with fmin > fmax fails with an InvalidRange error and returns
\* no grid.
C8_InvalidRange ==
    (fmin > fmax /\ pc # "start") => (err = "InvalidRange" /\ pc # "filtered")

\* the 2x2 window of output p: rows p[1]-1..p[1], columns p[2]-1..p[2],
\* reflected at the edge
Window(p) ==
    {<<Reflect(i), Reflect(j)>> : i \in {p[1] - 1, p[1]}, j \in {p[2] - 1, p[2]}}

\* C9: with smooth=true every output cell whose 2x2 window of the averaged
\* grid holds a Missing cell is Missing, and every other output cell is the
\* minimum of its window.
C9_MinFilterNaN ==
    (pc = "composited" /\ smooth) =>
        LET avg == NanMeanGrid(img1, img2)
        IN  \A p \in DOMAIN avg.v :
              IF \E q \in Window(p) : IsNaN(avg.v[q])
              THEN IsNaN(fimg.v[p])
              ELSE /\ \E q \in Window(p) : fimg.v[p] = avg.v[q]
                   /\ \A q \in Window(p) : Le(fimg.v[p], avg.v[q])

\* C10: fill writes into the grid it is given and returns that same grid, so
\* the second call of the two-pass pattern is given the first call's output:
\* cells the first pass filled are Valid samples of the second.
C10_InPlace ==
    /\ fcomp # 0 => fcomp = comp
    /\ pc = "pass1" => Cur = out1
    /\ m2 # "-" => in2 = out1
    /\ (pc = "pass2" /\ m1 = "linear" /\ m2 = "nearest") =>
           \A p \in MissingPts(out1) : Cur.v[p] \in NearestValues(out1, p)

\* linear then nearest, where the second pass gave a cell the value of a cell
\* the first pass had filled, a value no sample of the unfilled grid nearest to
\* it has
C10_Witness ==
    /\ pc = "pass2" /\ m1 = "linear" /\ m2 = "nearest"
    /\ out1 # comp0
    /\ \E p \in MissingPts(out1) :
         /\ ~IsNaN(Cur.v[p])
         /\ Cur.v[p] \notin NearestValues(comp0, p)

====
